---- MODULE Spec2Model ----
(***************************************************************************)
(* Model of the Smart-email-miner service:                                 *)
(*   - email_webhook.py : the webhook handler, the fetch and the ingestion *)
(*                        pipeline (process_and_store_email)               *)
(*   - subscription.py  : the subscription calls and the renewal scheduler *)
(* The specifications share the variables: Spec (concurrent ingestion      *)
(* tasks), SpecWebhook (one request, then its background tasks), SpecSched *)
(* (the renewal scheduler against the provider) and SpecSchedFair (the     *)
(* same, with the interval job firing forever).                            *)
(***************************************************************************)
EXTENDS Integers, Sequences, FiniteSets, TLC

\* ------------------------------------------------------------------ bounds
\* concurrent ingestion tasks (one asyncio task per notification)
NumProcs == 2
\* seconds the UTC clock may advance during a run
MaxClock == 1
\* injected failures (auth, network, chunker, embedding, I/O) per run
MaxFaults == 1
\* notifications in one POST batch
MaxBatch == 2
\* renew-only ticks counted while the 15-second job is installed
MaxTicks == 3

None == "None"

NoTick == [kind |-> "none", created |-> "n/a", renewed |-> "n/a", patch |-> "n/a"]

Procs == 1..NumProcs

\* message ids the provider serves; a notification's resource names one
MsgIds == {"m1", "m2", "m3"}
\* an id ingested before the run started
OldIds == {"m0"}
AllIds == MsgIds \cup OldIds

\* body.content of each message at the provider: a sequence of tags, blanks
\* and words; m3 has no text
Mailbox(m) ==
    IF m = "m1" THEN << "<p>", "w", "</p>" >>
    ELSE IF m = "m2" THEN << " ", "w", " ", "w" >>
    ELSE << "<p>", " ", "</p>" >>

VARIABLES
    \* ---- ingestion tasks (email_webhook.py)
    pc,              \* position of each task
    resource,        \* the resource each task was scheduled with
    email_data,      \* the message each task fetched
    uid,             \* email_data.get("id"), the key of each task's records
    temp_file_path,  \* <<uid, timestamp>> of each task's temp file
    chunks,          \* number of chunks the chunker returned to each task
    metadata_list,   \* each task's in-memory copy of the metadata file
    temp_files,      \* the temp files on disk: path -> text
    vector_index,    \* index_email.faiss: chunks stored per email_id
    metadata_file,   \* metadata.json
    prior_metadata,  \* metadata.json as the run found it
    lock_holder,     \* the tasks holding metadata.json.lock
    clock,           \* the last reading of datetime.utcnow(), in seconds
    faults,          \* failures injected so far
    \* ---- webhook (email_webhook.py)
    request,
    response,
    background_tasks,
    next_task,
    \* ---- scheduler (subscription.py)
    current_subscription_id,
    use_fast_scheduler,
    jobs,
    provider_subs,
    calls,
    last_tick,
    fast_renew_ticks,
    fast_renew_failed

ingestVars ==
    << pc, resource, email_data, uid, temp_file_path, chunks, metadata_list,
       temp_files, vector_index, metadata_file, prior_metadata, lock_holder,
       clock, faults >>
webVars == << request, response, background_tasks, next_task >>
schedVars ==
    << current_subscription_id, use_fast_scheduler, jobs, provider_subs,
       calls, last_tick, fast_renew_ticks, fast_renew_failed >>
vars == << ingestVars, webVars, schedVars >>

\* ------------------------------------------------------------ pure helpers
IsTag(tok) == tok \in {"<p>", "</p>"}

\* BeautifulSoup(html, "html.parser").get_text(): the text without the tags
GetText(html) == SelectSeq(html, LAMBDA tok : ~IsTag(tok))

RECURSIVE LStrip(_)
LStrip(s) == IF s # <<>> /\ Head(s) = " " THEN LStrip(Tail(s)) ELSE s

RECURSIVE RStrip(_)
RStrip(s) ==
    IF s # <<>> /\ s[Len(s)] = " " THEN RStrip(SubSeq(s, 1, Len(s) - 1)) ELSE s

\* a faulty variant: the text is tested without being stripped
Strip_None(s) == s
\* str.strip()
Strip(s) == RStrip(LStrip(s))

\* DocumentChunker.chunk(): opaque collaborator, here one chunk per word
ChunkCount(text) == Len(SelectSeq(text, LAMBDA tok : tok = "w"))

NoEmail == [id |-> None, body |-> <<>>]
NoPath == << None, 0 >>

\* metadata_entry, lines 146-157: the key and the count; the other fields are
\* copied from the message and never read again
MetadataEntry(id, n) == [email_id |-> id, chunk_count |-> n]

AbsentFile == [state |-> "absent", records |-> <<>>]
CorruptFile == [state |-> "corrupt", records |-> <<>>]
ArrayFile(recs) == [state |-> "array", records |-> recs]

\* json.load of metadata.json, JSONDecodeError and a missing file read as []
LoadMetadata(file) == IF file.state = "array" THEN file.records ELSE <<>>

\* a faulty variant: no de-duplication
HasEmailId_Never(list, id) == FALSE
\* any(m.get("email_id") == uid for m in metadata_list)
HasEmailId(list, id) == \E i \in 1..Len(list) : list[i].email_id = id

\* a faulty variant: the section is entered without the lock
LockFree_NoLock(holder) == TRUE
\* FileLock.acquire(): blocks until no one else holds metadata.json.lock
LockFree(holder) == holder = {}

\* an order on the resources, to number the tasks of an initial state
Ranked == << "m1", "m2", "m3" >>
ResourceRank(r) == CHOOSE i \in 1..Len(Ranked) : Ranked[i] = r

Terminal == {"done", "skipped", "abandoned", "raised"}

CanFail == faults < MaxFaults

\* ------------------------------------------------------- ingestion actions
\* the task is at its next step: only its position changes
Goto(p, where) ==
    /\ pc' = [pc EXCEPT ![p] = where]

\* the coroutine is over (returned or raised): its locals are gone
Ends(p, how) ==
    /\ pc' = [pc EXCEPT ![p] = how]
    /\ email_data' = [email_data EXCEPT ![p] = NoEmail]
    /\ uid' = [uid EXCEPT ![p] = None]
    /\ temp_file_path' = [temp_file_path EXCEPT ![p] = NoPath]
    /\ chunks' = [chunks EXCEPT ![p] = 0]
    /\ metadata_list' = [metadata_list EXCEPT ![p] = <<>>]

Fault == CanFail /\ faults' = faults + 1
NoFault == UNCHANGED faults

locals == << email_data, uid, temp_file_path, chunks, metadata_list >>
disk == << temp_files, vector_index, metadata_file, prior_metadata >>

\* a faulty variant: the ingestion is started whatever the fetch returned
FetchEmail_IngestAnyway(p) ==
    /\ pc[p] = "start"
    /\ \/ /\ resource[p] \in MsgIds
          /\ NoFault
       \/ Fault
    /\ email_data' = [email_data EXCEPT
                        ![p] = [id |-> resource[p],
                                body |-> Mailbox(resource[p])]]
    /\ Goto(p, "process")
    /\ UNCHANGED << uid, temp_file_path, chunks, metadata_list >>
    /\ UNCHANGED << resource, disk, lock_holder, clock >>
    /\ UNCHANGED << webVars, schedVars >>

\* trigger_email_processing, lines 86-91, with fetch_email_from_graph_api,
\* lines 40-58: the token, then the GET
FetchEmail(p) ==
    /\ pc[p] = "start"
    /\ \/ /\ resource[p] \in MsgIds
          /\ NoFault
          /\ email_data' = [email_data EXCEPT
                              ![p] = [id |-> resource[p],
                                      body |-> Mailbox(resource[p])]]
          /\ Goto(p, "process")
          /\ UNCHANGED << uid, temp_file_path, chunks, metadata_list >>
       \/ /\ resource[p] \notin MsgIds
          /\ NoFault
          \* raise_for_status: caught, None returned, the task prints and ends
          /\ Ends(p, "abandoned")
       \/ /\ Fault
          \* no token, or a network error (caught): None returned
          /\ Ends(p, "abandoned")
       \/ /\ Fault
          \* get_graph_api_token raises before the try block: nothing catches it
          /\ Ends(p, "raised")
    /\ UNCHANGED << resource, disk, lock_holder, clock >>
    /\ UNCHANGED << webVars, schedVars >>

\* process_and_store_email, lines 94-121: extract the text, write the temp file
WriteTempFile(p) ==
    /\ pc[p] = "process"
    /\ LET id == email_data[p].id
           plain_body == GetText(email_data[p].body)
       IN  IF Strip(plain_body) = <<>>
           THEN /\ NoFault
                /\ Ends(p, "skipped")
                /\ UNCHANGED << temp_files, clock >>
           ELSE \* datetime.utcnow(): not before the last reading
                \E now \in clock..MaxClock :
                   /\ clock' = now
                   /\ \/ /\ NoFault
                         /\ uid' = [uid EXCEPT ![p] = id]
                         \* the message is not read again after line 102
                         /\ email_data' = [email_data EXCEPT ![p] = NoEmail]
                         /\ temp_file_path' =
                              [temp_file_path EXCEPT ![p] = << id, now >>]
                         /\ temp_files' =
                              [q \in DOMAIN temp_files \cup {<< id, now >>}
                                 |-> IF q = << id, now >>
                                     THEN plain_body ELSE temp_files[q]]
                         /\ Goto(p, "chunk")
                         /\ UNCHANGED << chunks, metadata_list >>
                      \/ /\ Fault
                         \* open() fails: no file, the exception escapes
                         /\ Ends(p, "raised")
                         /\ UNCHANGED temp_files
    /\ UNCHANGED << resource, vector_index, metadata_file, prior_metadata,
                    lock_holder >>
    /\ UNCHANGED << webVars, schedVars >>

\* process_and_store_email, lines 123-129: await chunker.chunk()
Chunk(p) ==
    /\ pc[p] = "chunk"
    /\ \/ /\ temp_file_path[p] \in DOMAIN temp_files
          /\ NoFault
          /\ chunks' = [chunks EXCEPT
                          ![p] = ChunkCount(temp_files[temp_file_path[p]])]
          /\ Goto(p, "index")
          /\ UNCHANGED << email_data, uid, temp_file_path, metadata_list >>
       \/ /\ temp_file_path[p] \notin DOMAIN temp_files
          /\ NoFault
          \* the file the chunker was given is gone
          /\ Ends(p, "raised")
       \/ /\ Fault
          /\ Ends(p, "raised")
    /\ UNCHANGED << resource, disk, lock_holder, clock >>
    /\ UNCHANGED << webVars, schedVars >>

\* a faulty variant: the append is skipped for an id metadata.json records
IndexAppend_Gated(p) ==
    /\ pc[p] = "index"
    /\ NoFault
    /\ vector_index' =
          IF HasEmailId(LoadMetadata(metadata_file), uid[p])
          THEN vector_index
          ELSE [vector_index EXCEPT ![uid[p]] = @ + chunks[p]]
    /\ Goto(p, "lock")
    /\ UNCHANGED locals
    /\ UNCHANGED << resource, temp_files, metadata_file, prior_metadata,
                    lock_holder, clock >>
    /\ UNCHANGED << webVars, schedVars >>

\* a faulty variant: a failed append is swallowed and the ingestion goes on
IndexAppend_GoesOn(p) ==
    /\ pc[p] = "index"
    /\ \/ /\ NoFault
          /\ vector_index' = [vector_index EXCEPT ![uid[p]] = @ + chunks[p]]
       \/ /\ Fault
          /\ \E k \in 0..(chunks[p] - 1) :
                vector_index' = [vector_index EXCEPT ![uid[p]] = @ + k]
    /\ Goto(p, "lock")
    /\ UNCHANGED locals
    /\ UNCHANGED << resource, temp_files, metadata_file, prior_metadata,
                    lock_holder, clock >>
    /\ UNCHANGED << webVars, schedVars >>

\* process_and_store_email, lines 131-144: build_or_append_index
IndexAppend(p) ==
    /\ pc[p] = "index"
    /\ LET id == uid[p]
       IN  \/ /\ NoFault
              /\ vector_index' = [vector_index EXCEPT ![id] = @ + chunks[p]]
              /\ Goto(p, "lock")
              /\ UNCHANGED locals
           \/ /\ Fault
              \* a partial append: some of the chunks reached the file
              /\ \E k \in 0..(chunks[p] - 1) :
                    vector_index' = [vector_index EXCEPT ![id] = @ + k]
              /\ Ends(p, "raised")
    /\ UNCHANGED << resource, temp_files, metadata_file, prior_metadata,
                    lock_holder, clock >>
    /\ UNCHANGED << webVars, schedVars >>

\* process_and_store_email, lines 159-160: with lock
AcquireLock(p) ==
    /\ pc[p] = "lock"
    /\ LockFree(lock_holder)
    /\ lock_holder' = lock_holder \cup {p}
    /\ Goto(p, "read")
    /\ UNCHANGED << resource, locals, disk, clock, faults >>
    /\ UNCHANGED << webVars, schedVars >>

\* process_and_store_email, lines 161-167: read the current records
ReadMetadata(p) ==
    /\ pc[p] = "read"
    /\ \/ /\ NoFault
          /\ metadata_list' =
                [metadata_list EXCEPT ![p] = LoadMetadata(metadata_file)]
          /\ Goto(p, "write")
       \/ /\ metadata_file.state # "absent"
          /\ Fault
          \* open()/read fails with an OSError: only JSONDecodeError is caught
          /\ Goto(p, "unlock_exc")
          /\ UNCHANGED metadata_list
    /\ UNCHANGED << resource, email_data, uid, temp_file_path, chunks, disk,
                    lock_holder, clock >>
    /\ UNCHANGED << webVars, schedVars >>

\* process_and_store_email, lines 169-174: check, append, rewrite the file
WriteMetadata(p) ==
    /\ pc[p] = "write"
    /\ LET entry == MetadataEntry(uid[p], chunks[p])
           appended == Append(metadata_list[p], entry)
       IN  IF ~HasEmailId(metadata_list[p], uid[p])
           THEN \/ /\ NoFault
                   /\ metadata_list' = [metadata_list EXCEPT ![p] = appended]
                   /\ metadata_file' = ArrayFile(appended)
                   /\ Goto(p, "unlock")
                \/ /\ Fault
                   /\ metadata_list' = [metadata_list EXCEPT ![p] = appended]
                   \* open(..., "w") fails before or after it truncated the file
                   /\ \/ UNCHANGED metadata_file
                      \/ metadata_file' = CorruptFile
                   /\ Goto(p, "unlock_exc")
           ELSE /\ NoFault
                /\ Goto(p, "unlock")
                /\ UNCHANGED << metadata_list, metadata_file >>
    /\ UNCHANGED << resource, email_data, uid, temp_file_path, chunks,
                    temp_files, vector_index, prior_metadata, lock_holder, clock >>
    /\ UNCHANGED << webVars, schedVars >>

\* a faulty variant: the lock is released on the normal exit only
ReleaseLock_NormalExitOnly(p) ==
    /\ pc[p] \in {"unlock", "unlock_exc"}
    /\ IF pc[p] = "unlock"
       THEN /\ lock_holder' = lock_holder \ {p}
            /\ Goto(p, "remove")
            /\ UNCHANGED locals
       ELSE /\ UNCHANGED lock_holder
            /\ Ends(p, "raised")
    /\ UNCHANGED << resource, disk, clock, faults >>
    /\ UNCHANGED << webVars, schedVars >>

\* process_and_store_email, line 160: the with block releases on every exit
ReleaseLock(p) ==
    /\ pc[p] \in {"unlock", "unlock_exc"}
    /\ lock_holder' = lock_holder \ {p}
    /\ IF pc[p] = "unlock"
       THEN Goto(p, "remove") /\ UNCHANGED locals
       ELSE Ends(p, "raised")
    /\ UNCHANGED << resource, disk, clock, faults >>
    /\ UNCHANGED << webVars, schedVars >>

\* process_and_store_email, lines 176-177: os.remove(temp_file_path)
RemoveTempFile(p) ==
    /\ pc[p] = "remove"
    /\ \/ /\ temp_file_path[p] \in DOMAIN temp_files
          /\ NoFault
          /\ temp_files' =
                [q \in DOMAIN temp_files \ {temp_file_path[p]} |-> temp_files[q]]
          /\ Ends(p, "done")
       \/ /\ temp_file_path[p] \notin DOMAIN temp_files
          /\ NoFault
          \* FileNotFoundError
          /\ Ends(p, "raised")
          /\ UNCHANGED temp_files
       \/ /\ temp_file_path[p] \in DOMAIN temp_files
          /\ Fault
          /\ Ends(p, "raised")
          /\ UNCHANGED temp_files
    /\ UNCHANGED << resource, vector_index, metadata_file, prior_metadata,
                    lock_holder, clock >>
    /\ UNCHANGED << webVars, schedVars >>

IngestStep(p) ==
    \/ FetchEmail(p)
    \/ WriteTempFile(p)
    \/ Chunk(p)
    \/ IndexAppend(p)
    \/ AcquireLock(p)
    \/ ReadMetadata(p)
    \/ WriteMetadata(p)
    \/ ReleaseLock(p)
    \/ RemoveTempFile(p)

\* ------------------------------------------------------------------ webhook
\* one element of the "value" array: a JSON object with or without a
\* "resource" key, or something that is not an object
Elements ==
    { [type |-> "object", resource |-> r] : r \in MsgIds \cup {None} }
    \cup { [type |-> "string", resource |-> None] }

RECURSIVE SeqsUpTo(_, _)
SeqsUpTo(S, n) ==
    IF n = 0 THEN { <<>> }
    ELSE SeqsUpTo(S, n - 1)
         \cup { Append(q, x) : q \in { t \in SeqsUpTo(S, n - 1) : Len(t) = n - 1 },
                               x \in S }

NoValue == [type |-> "missing", items |-> <<>>]

\* the POST body: not JSON at all, a JSON array or string, or a JSON object
\* whose "value" is missing, null or a list
Payloads ==
    { [json |-> k, value |-> NoValue] : k \in {"invalid", "array", "string", "object"} }
    \cup { [json |-> "object", value |-> [type |-> "null", items |-> <<>>]] }
    \cup { [json |-> "object", value |-> [type |-> "list", items |-> q]]
             : q \in SeqsUpTo(Elements, MaxBatch) }

Requests ==
    [ method : {"GET", "POST"},
      validationToken : {None, "", "ABC123"},
      body : Payloads ]

NoRequest == [method |-> "none", validationToken |-> None,
              body |-> [json |-> "invalid", value |-> NoValue]]
NoResponse == [status |-> "none", content |-> None]
PlainTextResponse(content, status) == [status |-> status, content |-> content]
JSONResponse(content, status) == [status |-> status, content |-> content]

\* a faulty variant: the validation token is never looked at
Truthy_Never(token) == FALSE
\* bool(validation_token): None and "" are falsy
Truthy(token) == token # None /\ token # ""

\* notification.get("resource", "")
ResourceOf(notification) ==
    IF notification.resource = None THEN "" ELSE notification.resource

\* handle_graph_webhook, lines 75-78: the loop over the notifications adds a
\* task per element until an element has no .get (the exception stops it)
RECURSIVE AddTasks(_, _)
\* a faulty variant: only the first notification gets a task
AddTasks_StopAtFirst(items, added) ==
    IF items = <<>> THEN [tasks |-> added, raised |-> FALSE]
    ELSE IF Head(items).type # "object" THEN [tasks |-> added, raised |-> TRUE]
    ELSE [tasks |-> Append(added, ResourceOf(Head(items))), raised |-> FALSE]
AddTasks(items, added) ==
    IF items = <<>> THEN [tasks |-> added, raised |-> FALSE]
    ELSE IF Head(items).type # "object" THEN [tasks |-> added, raised |-> TRUE]
    ELSE AddTasks(Tail(items), Append(added, ResourceOf(Head(items))))

\* handle_graph_webhook, lines 70-82: the try block of a POST
ParseAndSchedule(body) ==
    IF body.json # "object"
    THEN \* request.json() or body.get raises
         [tasks |-> <<>>, raised |-> TRUE]
    ELSE IF body.value.type = "missing"
    THEN \* body.get("value", []) is the default []
         [tasks |-> <<>>, raised |-> FALSE]
    ELSE IF body.value.type = "null"
    THEN \* for ... in None raises
         [tasks |-> <<>>, raised |-> TRUE]
    ELSE AddTasks(body.value.items, <<>>)

\* handle_graph_webhook, lines 61-84
HandleGraphWebhook ==
    /\ request # NoRequest
    /\ response = NoResponse
    /\ IF Truthy(request.validationToken)
       THEN /\ response' = PlainTextResponse(request.validationToken, "200")
            /\ UNCHANGED background_tasks
       ELSE IF request.method = "POST"
       THEN LET r == ParseAndSchedule(request.body)
            IN  /\ background_tasks' = r.tasks
                /\ response' =
                     IF r.raised
                     THEN JSONResponse("Invalid JSON", "400")
                     ELSE JSONResponse("Notification received", "202")
       ELSE /\ response' = PlainTextResponse("", "405")
            /\ UNCHANGED background_tasks
    /\ UNCHANGED << request, next_task >>
    /\ UNCHANGED << ingestVars, schedVars >>

\* the response has been sent: the tasks added to background_tasks run one
\* after the other, in the order of line 78; a task that raised ends the run
StartBackgroundTask(p) ==
    /\ response # NoResponse
    /\ next_task <= Len(background_tasks)
    /\ \A q \in Procs : pc[q] \in {"idle", "done", "skipped", "abandoned"}
    /\ p = 1
    /\ pc' = [pc EXCEPT ![p] = "start"]
    /\ resource' = [resource EXCEPT ![p] = background_tasks[next_task]]
    /\ next_task' = next_task + 1
    /\ UNCHANGED << locals, disk, lock_holder, clock, faults >>
    /\ UNCHANGED << request, response, background_tasks >>
    /\ UNCHANGED schedVars

\* ---------------------------------------------------------------- scheduler
\* scheduler.add_job(..., seconds=15) and scheduler.add_job(..., hours=40)
FastJob == "interval seconds=15"
SlowJob == "interval hours=40"

\* subscriptions left at the provider by earlier runs, and the ids it hands out
Orphans == {"o1"}
NewIds == {"s1", "s2"}

Bump(n) == IF n < MaxTicks THEN n + 1 ELSE n

RECURSIVE Repeat(_, _)
Repeat(x, n) == IF n = 0 THEN <<>> ELSE << x >> \o Repeat(x, n - 1)

\* what the PATCH of subscription id can answer, given what the provider holds
PatchOutcomes(id, subs) ==
    IF id \in subs THEN {"200", "other", "raise"} ELSE {"other", "raise"}

\* a faulty variant: renew_subscription without the guard of lines 101-103
RenewSubscription_NoGuard(id, token, patch) ==
    IF token = "raise"
    THEN [result |-> "raised", patch |-> "n/a",
          calls |-> << "renew_subscription", "get_access_token" >>]
    ELSE IF token = "none"
    THEN [result |-> "false", patch |-> "n/a",
          calls |-> << "renew_subscription", "get_access_token" >>]
    ELSE [result |-> IF patch = "raise" THEN "raised"
                     ELSE IF patch = "200" THEN "true" ELSE "false",
          patch |-> patch,
          calls |-> << "renew_subscription", "get_access_token", "PATCH" >>]
\* renew_subscription, lines 99-124
RenewSubscription(id, token, patch) ==
    IF id = None
    THEN [result |-> "false", patch |-> "n/a",
          calls |-> << "renew_subscription" >>]
    ELSE IF token = "raise"
    THEN [result |-> "raised", patch |-> "n/a",
          calls |-> << "renew_subscription", "get_access_token" >>]
    ELSE IF token = "none"
    THEN [result |-> "false", patch |-> "n/a",
          calls |-> << "renew_subscription", "get_access_token" >>]
    ELSE [result |-> IF patch = "raise" THEN "raised"
                     ELSE IF patch = "200" THEN "true" ELSE "false",
          patch |-> patch,
          calls |-> << "renew_subscription", "get_access_token", "PATCH" >>]

\* faulty variants: the switch made whatever renew returned, and the flag
\* toggled on every success
NextCadence_IgnoreResult(success, fast) == FALSE
NextCadence_Flip(success, fast) == IF success THEN ~fast ELSE fast
\* run_scheduled_check, lines 138-139: use_fast_scheduler after a renew-only
\* tick whose renew returned success
NextCadence(success, fast) == IF success /\ fast THEN FALSE ELSE fast

\* a faulty variant: the 40-hour job is added without removing the other
RenewTick_NoRemoveJob ==
    /\ current_subscription_id # None
    /\ \E token \in {"ok", "none", "raise"},
          patch \in PatchOutcomes(current_subscription_id, provider_subs) :
         LET r == RenewSubscription(current_subscription_id, token, patch)
             fast == NextCadence(r.result = "true", use_fast_scheduler)
             switch == use_fast_scheduler /\ ~fast
         IN  /\ calls' = r.calls
             /\ last_tick' = [kind |-> "renew", created |-> "n/a",
                              renewed |-> r.result, patch |-> r.patch]
             /\ use_fast_scheduler' = fast
             /\ jobs' = IF switch THEN jobs \cup {SlowJob} ELSE jobs
             /\ fast_renew_ticks' =
                  IF use_fast_scheduler THEN Bump(fast_renew_ticks)
                                        ELSE fast_renew_ticks
             /\ fast_renew_failed' =
                  IF use_fast_scheduler /\ r.result # "true"
                  THEN Bump(fast_renew_failed) ELSE fast_renew_failed
    /\ UNCHANGED << current_subscription_id, provider_subs >>
    /\ UNCHANGED << ingestVars, webVars >>

\* run_scheduled_check, lines 136-143: a subscription id is cached
RenewTick ==
    /\ current_subscription_id # None
    /\ \E token \in {"ok", "none", "raise"},
          patch \in PatchOutcomes(current_subscription_id, provider_subs) :
         LET r == RenewSubscription(current_subscription_id, token, patch)
             fast == NextCadence(r.result = "true", use_fast_scheduler)
             switch == use_fast_scheduler /\ ~fast
         IN  /\ calls' = r.calls
             /\ last_tick' = [kind |-> "renew", created |-> "n/a",
                              renewed |-> r.result, patch |-> r.patch]
             /\ use_fast_scheduler' = fast
             \* remove_job("scheduled_check"), then add_job(..., hours=40)
             /\ jobs' = IF switch THEN (jobs \ {FastJob}) \cup {SlowJob} ELSE jobs
             /\ fast_renew_ticks' =
                  IF use_fast_scheduler THEN Bump(fast_renew_ticks)
                                        ELSE fast_renew_ticks
             /\ fast_renew_failed' =
                  IF use_fast_scheduler /\ r.result # "true"
                  THEN Bump(fast_renew_failed) ELSE fast_renew_failed
    /\ UNCHANGED << current_subscription_id, provider_subs >>
    /\ UNCHANGED << ingestVars, webVars >>

\* delete_all_subscriptions, lines 51-69: list, then one DELETE per listed
\* subscription; deleted are those answered 204
DeleteAllSubscriptions(subs, list, deleted) ==
    IF list # "200"
    THEN [subs |-> subs, calls |-> << "delete_all_subscriptions", "GET" >>]
    ELSE [subs |-> subs \ deleted,
          calls |-> << "delete_all_subscriptions", "GET" >>
                    \o Repeat("DELETE", Cardinality(subs))]

\* create_subscription, lines 71-97: 201 with the new id, 201 without an id
\* in the body, or any other status
CreateSubscription(subs, post, id) ==
    IF post = "201"
    THEN [created |-> "true", id |-> id, subs |-> subs \cup {id},
          calls |-> << "create_subscription", "POST" >>]
    ELSE IF post = "201 no id"
    THEN [created |-> "true", id |-> None, subs |-> subs \cup {id},
          calls |-> << "create_subscription", "POST" >>]
    ELSE [created |-> IF post = "raise" THEN "raised" ELSE "false",
          id |-> None, subs |-> subs,
          calls |-> << "create_subscription", "POST" >>]

\* run_scheduled_check, lines 145-154: no subscription id is cached
RecoveryTick ==
    /\ current_subscription_id = None
    /\ \/ \* no token, or get_access_token raises: the tick ends
          /\ calls' = << "get_access_token" >>
          /\ last_tick' = [kind |-> "recovery", created |-> "n/a",
                           renewed |-> "n/a", patch |-> "n/a"]
          /\ UNCHANGED << current_subscription_id, provider_subs >>
       \/ \* the listing raises: the tick ends before any DELETE
          /\ calls' = << "get_access_token", "delete_all_subscriptions", "GET" >>
          /\ last_tick' = [kind |-> "recovery", created |-> "n/a",
                           renewed |-> "n/a", patch |-> "n/a"]
          /\ UNCHANGED << current_subscription_id, provider_subs >>
       \/ \* a DELETE raises after some were tried: the tick ends before create
          /\ \E tried \in SUBSET provider_subs, deleted \in SUBSET provider_subs :
               /\ deleted \subseteq tried
               /\ tried # provider_subs
               /\ provider_subs' = provider_subs \ deleted
               /\ calls' = << "get_access_token", "delete_all_subscriptions", "GET" >>
                           \o Repeat("DELETE", Cardinality(tried) + 1)
          /\ last_tick' = [kind |-> "recovery", created |-> "n/a",
                           renewed |-> "n/a", patch |-> "n/a"]
          /\ UNCHANGED current_subscription_id
       \/ \E list \in {"200", "other"}, deleted \in SUBSET provider_subs,
             post \in {"201", "201 no id", "other", "raise"},
             token \in {"ok", "none", "raise"} :
            LET d == DeleteAllSubscriptions(provider_subs, list, deleted)
                fresh == NewIds \ d.subs
            IN  /\ (list # "200" => deleted = {})
                /\ (post \in {"201", "201 no id"} => fresh # {})
                /\ \E id \in (IF fresh = {} THEN {None} ELSE fresh) :
                     LET c == CreateSubscription(d.subs, post, id)
                     IN  /\ current_subscription_id' = c.id
                         /\ provider_subs' = c.subs
                         /\ IF c.created = "true"
                            THEN \E patch \in PatchOutcomes(c.id, c.subs) :
                                   LET r == RenewSubscription(c.id, token, patch)
                                   IN  /\ calls' = << "get_access_token" >> \o d.calls
                                                   \o c.calls \o r.calls
                                       /\ last_tick' =
                                            [kind |-> "recovery", created |-> "true",
                                             renewed |-> r.result, patch |-> r.patch]
                            ELSE /\ token = "ok"
                                 /\ calls' = << "get_access_token" >> \o d.calls
                                             \o c.calls
                                 /\ last_tick' =
                                      [kind |-> "recovery", created |-> c.created,
                                       renewed |-> "n/a", patch |-> "n/a"]
    /\ UNCHANGED << use_fast_scheduler, jobs, fast_renew_ticks, fast_renew_failed >>
    /\ UNCHANGED << ingestVars, webVars >>

\* scheduled_check, lines 129-130: one run of the installed job
ScheduledCheck == RenewTick \/ RecoveryTick

\* the provider drops a subscription: it expired or was deleted elsewhere
ProviderDrops ==
    /\ \E s \in provider_subs : provider_subs' = provider_subs \ {s}
    /\ UNCHANGED << current_subscription_id, use_fast_scheduler, jobs, calls,
                    last_tick, fast_renew_ticks, fast_renew_failed >>
    /\ UNCHANGED << ingestVars, webVars >>

\* ---------------------------------------------------------- initial states
\* what earlier runs left on disk: no metadata file, or one stored message
\* of one chunk (for m2, an earlier and shorter version of the message)
PriorStores ==
    { [file |-> AbsentFile, index |-> [m \in AllIds |-> 0]] }
    \cup
    { [file |-> ArrayFile(<< MetadataEntry(m, 1) >>),
       index |-> [n \in AllIds |-> IF n = m THEN 1 ELSE 0]]
        : m \in {"m0", "m1", "m2"} }

IngestIdle ==
    /\ email_data = [p \in Procs |-> NoEmail]
    /\ uid = [p \in Procs |-> None]
    /\ temp_file_path = [p \in Procs |-> NoPath]
    /\ chunks = [p \in Procs |-> 0]
    /\ metadata_list = [p \in Procs |-> <<>>]
    /\ temp_files = << >>
    /\ lock_holder = {}
    /\ clock = 0
    /\ faults = 0
    /\ \E s \in PriorStores :
          /\ metadata_file = s.file
          /\ prior_metadata = s.file
          /\ vector_index = s.index

WebIdle ==
    /\ request = NoRequest
    /\ response = NoResponse
    /\ background_tasks = <<>>
    /\ next_task = 1

SchedIdle ==
    /\ current_subscription_id = None
    /\ use_fast_scheduler = TRUE
    /\ jobs = {}
    /\ provider_subs = {}
    /\ calls = <<>>
    /\ last_tick = NoTick
    /\ fast_renew_ticks = 0
    /\ fast_renew_failed = 0

\* every task was scheduled by some notification and none has started
Init ==
    /\ pc = [p \in Procs |-> "start"]
    /\ resource \in [Procs -> MsgIds]
    \* tasks are interchangeable: one numbering of each multiset of resources
    /\ \A p, q \in Procs : p < q => ResourceRank(resource[p]) <= ResourceRank(resource[q])
    /\ IngestIdle
    /\ WebIdle
    /\ SchedIdle

Next == \E p \in Procs : IngestStep(p)

Spec == Init /\ [][Next]_vars

\* one request has arrived; its background tasks run after the response
WebInit ==
    /\ pc = [p \in Procs |-> "idle"]
    /\ resource = [p \in Procs |-> None]
    /\ IngestIdle
    /\ request \in Requests
    /\ response = NoResponse
    /\ background_tasks = <<>>
    /\ next_task = 1
    /\ SchedIdle

WebNext ==
    \/ HandleGraphWebhook
    \/ \E p \in Procs : StartBackgroundTask(p)
    \/ \E p \in Procs : IngestStep(p)

SpecWebhook == WebInit /\ [][WebNext]_vars

\* start_scheduler, lines 126-159, has run: the 15-second job is installed
SchedInit ==
    /\ pc = [p \in Procs |-> "idle"]
    /\ resource = [p \in Procs |-> None]
    /\ IngestIdle
    /\ metadata_file = AbsentFile
    /\ WebIdle
    /\ current_subscription_id = None
    /\ use_fast_scheduler = TRUE
    /\ jobs = {FastJob}
    /\ provider_subs \in SUBSET Orphans
    /\ calls = <<>>
    /\ last_tick = NoTick
    /\ fast_renew_ticks = 0
    /\ fast_renew_failed = 0

SchedNext == ScheduledCheck \/ ProviderDrops

SpecSched == SchedInit /\ [][SchedNext]_vars

\* the interval job fires again and again
SpecSchedFair == SpecSched /\ WF_vars(ScheduledCheck)

\* ------------------------------------------------------------------ claims
AllEnded == \A p \in Procs : pc[p] \in Terminal
AllDone == \A p \in Procs : pc[p] = "done"

\* the records of metadata.json with email_id = id
RecordsOf(file, id) ==
    { i \in 1..Len(file.records) : file.records[i].email_id = id }

IdsIn(recs) == { recs[i].email_id : i \in 1..Len(recs) }

\* C1: when every ingestion has ended and no step failed for a reason of its
\* own, each message id that was ingested with a non-empty body (by one task
\* or by several, in any interleaving) has exactly one record in metadata.json
C1_OneRecordPerId ==
    (AllEnded /\ faults = 0) =>
        \A m \in MsgIds :
            (\E p \in Procs : resource[p] = m /\ pc[p] \in {"done", "raised"}) =>
                /\ metadata_file.state = "array"
                /\ Cardinality(RecordsOf(metadata_file, m)) = 1

\* two ingestions of the same id both ran to the end
C1_Witness ==
    /\ faults = 0
    /\ \E p, q \in Procs :
          /\ p # q
          /\ resource[p] = resource[q]
          /\ pc[p] = "done"
          /\ pc[q] = "done"
          /\ Cardinality(RecordsOf(metadata_file, resource[p])) = 1

\* C2: when all the concurrent ingestions have stored their message and no
\* step failed, metadata.json is a well-formed array: the records the run
\* found, in their order, followed by exactly one record per ingested id
\* that was not among them; no ingestion's record is lost to another's
\* read-check-append-rewrite
C2_NoLostRecord ==
    (AllDone /\ faults = 0) =>
        LET prior == prior_metadata.records
            new == { resource[p] : p \in Procs } \ IdsIn(prior)
        IN  /\ metadata_file.state = "array"
            /\ Len(metadata_file.records) = Len(prior) + Cardinality(new)
            /\ SubSeq(metadata_file.records, 1, Len(prior)) = prior
            /\ \A m \in new : Cardinality(RecordsOf(metadata_file, m)) = 1

\* ingestions of pairwise distinct new ids all stored, after an older record
C2_Witness ==
    /\ AllDone
    /\ faults = 0
    /\ \A p, q \in Procs : p # q => resource[p] # resource[q]
    /\ prior_metadata.records # <<>>
    /\ Len(metadata_file.records) = Len(prior_metadata.records) + NumProcs

\* the provider no longer holds the cached subscription and said so
RenewRejectedForLoss ==
    /\ current_subscription_id # None
    /\ current_subscription_id \notin provider_subs
    /\ last_tick.kind = "renew"
    /\ last_tick.patch = "other"
    /\ last_tick.renewed = "false"

CreateAttempted ==
    \E i \in 1..Len(calls) : calls[i] = "create_subscription"

\* C3: once a renew of the cached id was rejected because the provider lost
\* the subscription, a later tick runs the recovery path and attempts create
C3_LossLeadsToCreate == RenewRejectedForLoss ~> CreateAttempted

\* C4: from FAST with no cached id, the tick that creates (and renews) leaves
\* the cadence FAST and the 15-second job installed; the cadence changes only
\* in a renew-only tick whose renew succeeded, and it is the first such tick:
\* while FAST every renew-only tick so far failed, and once SLOW the
\* renew-only ticks run at the 15-second cadence number the failed ones plus
\* one (exactly one when the first renew-only tick succeeds)
C4_SwitchInFirstGoodRenewOnlyTick ==
    /\ [][current_subscription_id = None =>
            use_fast_scheduler' = use_fast_scheduler /\ jobs' = jobs]_vars
    /\ [][(use_fast_scheduler /\ ~use_fast_scheduler') =>
            /\ current_subscription_id # None
            /\ last_tick'.kind = "renew"
            /\ last_tick'.renewed = "true"
            /\ jobs' = {SlowJob}]_vars
    /\ [](use_fast_scheduler =>
            /\ jobs = {FastJob}
            /\ ~(last_tick.kind = "renew" /\ last_tick.renewed = "true")
            /\ fast_renew_ticks = fast_renew_failed)
    /\ []((~use_fast_scheduler /\ fast_renew_failed < MaxTicks) =>
            fast_renew_ticks = fast_renew_failed + 1)

\* SLOW was reached by the one renew-only tick that followed the creation
C4_Witness ==
    /\ ~use_fast_scheduler
    /\ jobs = {SlowJob}
    /\ fast_renew_ticks = 1
    /\ fast_renew_failed = 0
    /\ last_tick.kind = "renew"
    /\ last_tick.renewed = "true"

\* C5: once SLOW, always SLOW; and a step that ends with the last renew not
\* having succeeded changes neither the cadence nor the installed job
C5_OneWaySwitch ==
    /\ [][~use_fast_scheduler => ~use_fast_scheduler']_vars
    /\ [][last_tick'.renewed # "true" =>
            use_fast_scheduler' = use_fast_scheduler /\ jobs' = jobs]_vars

\* a renew failed while SLOW and the 40-hour job stayed
C5_Witness ==
    /\ ~use_fast_scheduler
    /\ jobs = {SlowJob}
    /\ last_tick.kind = "renew"
    /\ last_tick.renewed = "false"

\* a POST body that is not the expected structure: not JSON, not a JSON
\* object, or a "value" list with an element that is not an object
Malformed(body) ==
    \/ body.json # "object"
    \/ /\ body.value.type = "list"
       /\ \E i \in 1..Len(body.value.items) : body.value.items[i].type # "object"

\* C6: a POST (without validationToken) whose payload is malformed is
\* answered 400 and has scheduled no background task
C6_MalformedSchedulesNothing ==
    ( /\ response # NoResponse
      /\ request.method = "POST"
      /\ ~Truthy(request.validationToken)
      /\ Malformed(request.body) ) =>
        /\ response.status = "400"
        /\ background_tasks = <<>>

\* C7: no failure of the notification-processing path leaves the task as an
\* uncaught exception
C7_NoFailureEscapes == \A p \in Procs : pc[p] # "raised"

\* a POST without validationToken whose body is an object with a "value"
\* list of objects
WellFormedBatch(req) ==
    /\ req.method = "POST"
    /\ ~Truthy(req.validationToken)
    /\ req.body.json = "object"
    /\ req.body.value.type = "list"
    /\ \A i \in 1..Len(req.body.value.items) :
          req.body.value.items[i].type = "object"

\* C8: a well-formed batch of k notifications is answered 202 with exactly k
\* background tasks, the i-th carrying the i-th notification's resource; no
\* task has started while there is no response; and once produced, the
\* response and the scheduled tasks never change, whatever the tasks do
C8_AcceptedBeforeTasksRun ==
    /\ []((response # NoResponse /\ WellFormedBatch(request)) =>
            /\ response.status = "202"
            /\ Len(background_tasks) = Len(request.body.value.items)
            /\ \A i \in 1..Len(background_tasks) :
                  background_tasks[i] = ResourceOf(request.body.value.items[i]))
    /\ [](response = NoResponse =>
            /\ next_task = 1
            /\ \A p \in Procs : pc[p] = "idle")
    /\ [][response # NoResponse =>
            response' = response /\ background_tasks' = background_tasks]_vars

\* a batch of two was accepted and one of its tasks then failed
C8_Witness ==
    /\ WellFormedBatch(request)
    /\ Len(request.body.value.items) = 2
    /\ response.status = "202"
    /\ Len(background_tasks) = 2
    /\ \E p \in Procs : pc[p] \in {"raised", "abandoned"}

\* the HTML body has no text but blanks
WhitespaceOnly(html) == \A i \in 1..Len(html) : html[i] \in {"<p>", "</p>", " "}

\* C9: the step that processes a message whose body strips to nothing ends
\* the ingestion as skipped and leaves the temp files, the vector index, the
\* metadata file and the metadata lock as they were; a skipped task holds no
\* temp file path and no lock
C9_EmptyBodyChangesNothing ==
    /\ [][\A p \in Procs :
            ( /\ pc[p] = "process"
              /\ pc'[p] # "process"
              /\ WhitespaceOnly(email_data[p].body) ) =>
                /\ pc'[p] = "skipped"
                /\ temp_files' = temp_files
                /\ vector_index' = vector_index
                /\ metadata_file' = metadata_file
                /\ lock_holder' = lock_holder]_vars
    /\ [](\A p \in Procs :
            pc[p] = "skipped" =>
                /\ p \notin lock_holder
                /\ temp_file_path[p] = NoPath)

\* an ingestion was skipped for its empty body while the store was in use
C9_Witness ==
    \E p \in Procs :
        /\ pc[p] = "skipped"
        /\ metadata_file = prior_metadata
        /\ temp_files = << >>

\* C10: a renew called with no cached id (after a creation whose answer
\* carried no id) returns false having acquired no token and sent no request,
\* the id stays absent and the cadence FAST; and a PATCH answered with a
\* status other than 200 makes renew return false, not raise
C10_RenewGuard ==
    /\ ( /\ last_tick.kind = "recovery"
         /\ last_tick.created = "true"
         /\ current_subscription_id = None ) =>
            /\ last_tick.renewed = "false"
            /\ calls[Len(calls)] = "renew_subscription"
            /\ use_fast_scheduler
            /\ jobs = {FastJob}
    /\ last_tick.patch = "other" => last_tick.renewed = "false"

\* renew ran with no cached id
C10_Witness ==
    /\ last_tick.kind = "recovery"
    /\ last_tick.created = "true"
    /\ current_subscription_id = None
    /\ last_tick.renewed = "false"

\* C11: every temp file an ingestion created is removed by the time that
\* ingestion ends, on every exit path (also when the chunker, the index
\* append or the metadata write fails): once no ingestion is in flight, no
\* temp file exists
C11_NoTempFileLeft == AllEnded => temp_files = << >>

\* the positions of a task inside the with-lock block of lines 160-174
InSection == {"read", "write", "unlock", "unlock_exc"}

\* C12: the metadata lock is held by at most one ingestion, and exactly by the
\* ingestion that is between its acquisition and the exit of the
\* read-check-append-write block (not while fetching, chunking, appending to
\* the index or removing the temp file); an ingestion that has ended, normally
\* or by a failing read or write, holds no lock, so an ingestion waiting for
\* the lock while no other is inside the block finds it free
C12_LockExclusiveNotLeaked ==
    /\ Cardinality(lock_holder) <= 1
    /\ \A p \in Procs : p \in lock_holder <=> pc[p] \in InSection
    /\ \A p \in Procs :
          ( /\ pc[p] = "lock"
            /\ \A q \in Procs \ {p} : pc[q] \notin InSection ) =>
              LockFree(lock_holder)

\* the rewrite of one ingestion failed inside the block and left a truncated
\* file; that ingestion has ended and another one now holds the lock
C12_Witness ==
    /\ metadata_file = CorruptFile
    /\ \E p, q \in Procs :
          /\ pc[p] = "raised"
          /\ pc[q] = "read"
          /\ lock_holder = {q}

\* C13: whatever step fails, a record present in metadata.json is present in
\* every later state, and the file never becomes anything but a well-formed
\* array (a failed ingestion leaves it as it was)
C13_MetadataAppendOnly ==
    [][ /\ metadata_file'.state # "corrupt"
        /\ \A i \in 1..Len(metadata_file.records) :
              \E j \in 1..Len(metadata_file'.records) :
                 metadata_file'.records[j] = metadata_file.records[i] ]_vars

\* the chunks the run found in the index for message m: those of the record
\* the run found, if any
PriorIndex(m) ==
    IF RecordsOf(prior_metadata, m) = {} THEN 0
    ELSE prior_metadata.records[CHOOSE i \in RecordsOf(prior_metadata, m) : TRUE]
            .chunk_count

\* the store as the run found it
StoreUntouched ==
    /\ temp_files = << >>
    /\ metadata_file = prior_metadata
    /\ \A m \in AllIds : vector_index[m] = PriorIndex(m)
    /\ lock_holder = {}

\* C14: a request with a non-empty validationToken, whatever its method and
\* body, is answered 200 with the token as the body; it schedules no
\* background task, no task ever starts for it and the store is not touched
C14_ValidationEcho ==
    (response # NoResponse /\ request.validationToken \notin {None, ""}) =>
        /\ response = PlainTextResponse(request.validationToken, "200")
        /\ response.content = "ABC123"
        /\ background_tasks = <<>>
        /\ next_task = 1
        /\ \A p \in Procs : pc[p] = "idle"
        /\ StoreUntouched

\* a POST carrying the token and a well-formed batch of two was answered 200
C14_Witness ==
    /\ request.method = "POST"
    /\ request.validationToken = "ABC123"
    /\ request.body.json = "object"
    /\ request.body.value.type = "list"
    /\ Len(request.body.value.items) = 2
    /\ \A i \in 1..2 : request.body.value.items[i].resource \in MsgIds
    /\ response.status = "200"
    /\ background_tasks = <<>>

\* how often, and where first, the last tick made the call named x
CallCount(x) == Cardinality({ i \in 1..Len(calls) : calls[i] = x })
FirstCall(x) ==
    CHOOSE i \in 1..Len(calls) :
        calls[i] = x /\ \A j \in 1..(i - 1) : calls[j] # x

\* the parts of the order of a recovery tick that do not depend on what
\* deleteAll achieved
RecoveryOrderBesidesCreate ==
    last_tick.kind = "recovery" =>
        /\ calls[1] = "get_access_token"
        /\ CallCount("delete_all_subscriptions") <= 1
        /\ CallCount("create_subscription") <= 1
        /\ CallCount("delete_all_subscriptions") = 0 =>
              CallCount("create_subscription") = 0
        /\ CallCount("create_subscription") = 1 =>
              /\ CallCount("delete_all_subscriptions") = 1
              /\ FirstCall("delete_all_subscriptions")
                    < FirstCall("create_subscription")
        /\ CallCount("renew_subscription")
              = (IF last_tick.created = "true" THEN 1 ELSE 0)
        /\ CallCount("renew_subscription") = 1 =>
              FirstCall("create_subscription") < FirstCall("renew_subscription")
        /\ use_fast_scheduler
        /\ jobs = {FastJob}

\* C15: a tick that started with no cached id calls get_access_token first;
\* without a credential it calls neither deleteAll nor create; with one it
\* calls deleteAll, then create exactly once whatever deleteAll achieved, then
\* renew exactly once if and only if create succeeded; and it leaves the
\* cadence FAST
C15_RecoveryCallOrder ==
    /\ RecoveryOrderBesidesCreate
    /\ ( /\ last_tick.kind = "recovery"
         /\ CallCount("delete_all_subscriptions") = 1 ) =>
            CallCount("create_subscription") = 1

C17_TempPathsDistinct ==
    \A p, q \in Procs :
        (p # q /\ temp_file_path[p] # NoPath) =>
            temp_file_path[p] # temp_file_path[q]

\* the ingestions of message m in this run, and the chunks one of them makes
IngestionsOf(m) == { p \in Procs : resource[p] = m }
ChunksOf(m) == ChunkCount(GetText(Mailbox(m)))

\* C18: when every ingestion has stored its message and no step failed, a
\* message ingested k times has had its chunks appended to the index k times
\* (on top of what the run found there), whether or not metadata.json already
\* recorded the id, while metadata.json holds exactly one record for the id,
\* with the chunk_count of the first ingestion that reached the metadata
\* step: the one of the record the run found, if any
C18_IndexNotDeduplicated ==
    (AllDone /\ faults = 0) =>
        \A m \in MsgIds :
            IngestionsOf(m) # {} =>
                /\ vector_index[m]
                      = PriorIndex(m) + Cardinality(IngestionsOf(m)) * ChunksOf(m)
                /\ metadata_file.state = "array"
                /\ Cardinality(RecordsOf(metadata_file, m)) = 1
                /\ \A i \in RecordsOf(metadata_file, m) :
                      metadata_file.records[i].chunk_count
                        = (IF RecordsOf(prior_metadata, m) # {}
                           THEN PriorIndex(m) ELSE ChunksOf(m))

\* m2 was stored with one chunk before the run and ingested twice in it: the
\* index holds 1 + 2 * 2 chunks for it, the single record still says 1
C18_Witness ==
    /\ AllDone
    /\ faults = 0
    /\ Cardinality(IngestionsOf("m2")) = 2
    /\ RecordsOf(prior_metadata, "m2") # {}
    /\ vector_index["m2"] = 5
    /\ \A i \in RecordsOf(metadata_file, "m2") :
          metadata_file.records[i].chunk_count = 1

\* the positions of an ingestion after its index append returned
AfterIndex == {"lock", "read", "write", "unlock", "unlock_exc", "remove", "done"}

\* C19: in every state, each record of metadata.json names a message with at
\* least chunk_count chunks in the vector index, and so does the record an
\* ingestion past its index append is about to write; metadata.json changes
\* only in the rewrite step of an ingestion whose append completed
C19_IndexBeforeMetadata ==
    /\ [](\A i \in 1..Len(metadata_file.records) :
            vector_index[metadata_file.records[i].email_id]
              >= metadata_file.records[i].chunk_count)
    /\ [](\A p \in Procs :
            pc[p] \in AfterIndex \ {"done"} =>
                vector_index[uid[p]] >= chunks[p])
    /\ [][metadata_file' # metadata_file =>
            \E p \in Procs :
               /\ pc[p] = "write"
               /\ vector_index[uid[p]] >= chunks[p]]_vars

\* an index append failed half-way (one chunk of two arrived) and the
\* message has no record
C19_Witness ==
    /\ \E p \in Procs : pc[p] = "raised" /\ resource[p] = "m2"
    /\ vector_index["m2"] = PriorIndex("m2") + 1
    /\ RecordsOf(metadata_file, "m2") = RecordsOf(prior_metadata, "m2")
    /\ temp_files # << >>
    /\ faults = 1

====
